---- MODULE Spec2Model ----
(***************************************************************************)
(* A model of LifeTheGame (src/main.cpp): a Game-of-Life variant whose     *)
(* cells carry a saturating 8-bit age, encoded to pixels and presented in  *)
(* a frame loop that runs until a quit event or an Escape key-down.        *)
(*                                                                         *)
(* Grids are functions over 0 .. w*h-1, indexed y*w + x as in the source.  *)
(***************************************************************************)
EXTENDS Integers, Naturals, Sequences, FiniteSets

VARIABLES
    pc,         \* position of main(): which statement runs next
    field_w,    \* int field_w = width / 2   (0 before the mode is known)
    field_h,    \* int field_h = height / 2
    window,     \* state of the three shared_ptr locals of main():
    renderer,   \*   "none" (not constructed), "null" (owns nullptr),
    texture,    \*   "live" (owns a handle), "gone" (destructor has run)
    calls,      \* the calls made to the display subsystem for setup and release
    cerr,       \* what main() wrote to the error stream
    exit_code,  \* -1 while running, then the value main() returned
    cells,      \* Cells cells
    old,        \* const Cells old(cells): the snapshot of the last updateCells
    pixels,     \* Pixels pixels
    screen,     \* the texture content last uploaded and presented
    run,        \* bool run
    events,     \* the display subsystem's queue of pending events
    seed,       \* history: the grid as createCells returned it
    start,      \* history: the grid when the current tick began
    gens,       \* history: number of updateCells calls so far
    frames,     \* history: number of frames presented so far
    streak      \* history: per cell, consecutive generations alive so far

vars == << pc, field_w, field_h, window, renderer, texture, calls, cerr,
           exit_code, cells, old, pixels, screen, run, events, seed, start,
           gens, frames, streak >>

----------------------------------------------------------------------------
(* Bounds of the model *)

\* display widths and heights offered by the display mode: 2 .. MaxDisplay
MaxDisplayW == 6
MaxDisplayH == 6
\* ticks of the frame loop explored
MaxTicks == 3
\* events that may be pending at once
MaxPending == 1
\* grid dimensions of the rule specification
MaxW == 4
MaxH == 4
\* grid dimensions of the block still-life specification: 4 .. MaxBlock
MaxBlockW == 5
MaxBlockH == 5
\* generations explored by the seeded-generation specifications
MaxGens == 260

----------------------------------------------------------------------------
(* Machine arithmetic *)

\* std::uint8_t arithmetic is modulo 2^8
U8 == 256

\* the saturation limit of updateCells
MaxAge == 255

\* bitwise or of two naturals
RECURSIVE BitOr(_, _)
BitOr(a, b) ==
    IF a = 0 THEN b
    ELSE IF b = 0 THEN a
    ELSE (IF (a % 2 = 1) \/ (b % 2 = 1) THEN 1 ELSE 0)
         + 2 * BitOr(a \div 2, b \div 2)

\* a bool converted to an integer, as in count += isLive(...)
BoolToInt(b) == IF b THEN 1 ELSE 0

Indices(w, h) == 0 .. (w * h - 1)

\* A 32-bit word is the tuple of its four bytes, most significant first.
\* the int a std::uint8_t operand is promoted to
Promote(c) == << 0, 0, 0, c >>

\* word << 16: a shift two bytes wide instead of three
Shl16(word) == << word[3], word[4], 0, 0 >>

\* word << 24 in 32 bits: the low byte becomes the high byte, the rest is
\* shifted out.  For c >= 128 the int result is negative; its bit pattern
\* is what the conversion to std::uint32_t stores.
Shl24(word) == << word[4], 0, 0, 0 >>

\* word | word
Or32(a, b) == [k \in 1 .. 4 |-> BitOr(a[k], b[k])]

\* 0x0000ff00 and 0x00000000
Green == << 0, 0, 255, 0 >>
Black == << 0, 0, 0, 0 >>

----------------------------------------------------------------------------
(* The cell grid: src/main.cpp lines 133-174 *)

\* isLive with the lower bounds included: x >= 0 && y >= 0
isLiveFromZero(data, x, y, w, h) ==
    IF x >= 0 /\ y >= 0 /\ x < w /\ y < h
    THEN data[y * w + x] # 0
    ELSE FALSE

\* isLive with the lower bound of x included: x >= 0 && y > 0
isLiveLeftColumn(data, x, y, w, h) ==
    IF x >= 0 /\ y > 0 /\ x < w /\ y < h
    THEN data[y * w + x] # 0
    ELSE FALSE

isLive(data, x, y, w, h) ==
    IF x > 0 /\ y > 0 /\ x < w /\ y < h
    THEN data[y * w + x] # 0
    ELSE FALSE

\* neighbors counting the cell itself as well
neighborsAndSelf(data, x, y, w, h) ==
    ( BoolToInt(isLive(data, x - 1, y - 1, w, h))
    + BoolToInt(isLive(data, x    , y - 1, w, h))
    + BoolToInt(isLive(data, x + 1, y - 1, w, h))
    + BoolToInt(isLive(data, x - 1, y    , w, h))
    + BoolToInt(isLive(data, x    , y    , w, h))
    + BoolToInt(isLive(data, x + 1, y    , w, h))
    + BoolToInt(isLive(data, x - 1, y + 1, w, h))
    + BoolToInt(isLive(data, x    , y + 1, w, h))
    + BoolToInt(isLive(data, x + 1, y + 1, w, h)) ) % U8

neighbors(data, x, y, w, h) ==
    LET c1 == (0  + BoolToInt(isLive(data, x - 1, y - 1, w, h))) % U8
        c2 == (c1 + BoolToInt(isLive(data, x    , y - 1, w, h))) % U8
        c3 == (c2 + BoolToInt(isLive(data, x + 1, y - 1, w, h))) % U8
        c4 == (c3 + BoolToInt(isLive(data, x - 1, y    , w, h))) % U8
        c5 == (c4 + BoolToInt(isLive(data, x + 1, y    , w, h))) % U8
        c6 == (c5 + BoolToInt(isLive(data, x - 1, y + 1, w, h))) % U8
        c7 == (c6 + BoolToInt(isLive(data, x    , y + 1, w, h))) % U8
        c8 == (c7 + BoolToInt(isLive(data, x + 1, y + 1, w, h))) % U8
    IN  c8

\* The indices of the snapshot that the code reads, and of the grid that it
\* writes, as sets.
\* isLive whose upper test on x is x <= w
isLiveReadsUpTo(x, y, w, h) ==
    IF x > 0 /\ y > 0 /\ x <= w /\ y < h THEN { y * w + x } ELSE { }

\* isLive, lines 134-135: data[y * w + x] is read only under the test
isLiveReads(x, y, w, h) ==
    IF x > 0 /\ y > 0 /\ x < w /\ y < h THEN { y * w + x } ELSE { }

\* neighbors, lines 141-150: the eight isLive calls
neighborsReads(x, y, w, h) ==
    isLiveReads(x - 1, y - 1, w, h) \cup isLiveReads(x, y - 1, w, h)
        \cup isLiveReads(x + 1, y - 1, w, h) \cup isLiveReads(x - 1, y, w, h)
        \cup isLiveReads(x + 1, y, w, h) \cup isLiveReads(x - 1, y + 1, w, h)
        \cup isLiveReads(x, y + 1, w, h) \cup isLiveReads(x + 1, y + 1, w, h)

\* updateCells, lines 158-171: per cell, neighbors() and data[index] read
\* the snapshot, and cells[index] is the one element that may be written
updateCellsReads(w, h) ==
    UNION { neighborsReads(x, y, w, h) \cup { y * w + x } :
                x \in 0 .. w - 1, y \in 0 .. h - 1 }

updateCellsWrites(w, h) == { y * w + x : x \in 0 .. w - 1, y \in 0 .. h - 1 }

\* updateCell without the snapshot: reads the grid it is writing
updateCellInPlace(c, data, x, y, w, h) ==
    LET index == y * w + x
        count == neighbors(c, x, y, w, h)
    IN  IF c[index] # 0
        THEN IF count < 2 \/ count > 3
             THEN [c EXCEPT ![index] = 0]
             ELSE IF c[index] < MaxAge
                  THEN [c EXCEPT ![index] = (c[index] + 1) % U8]
                  ELSE c
        ELSE IF count = 3
             THEN [c EXCEPT ![index] = 1]
             ELSE c

\* updateCell without the saturation test: the age wraps to 0
updateCellWrap(c, data, x, y, w, h) ==
    LET index == y * w + x
        count == neighbors(data, x, y, w, h)
    IN  IF data[index] # 0
        THEN IF count < 2 \/ count > 3
             THEN [c EXCEPT ![index] = 0]
             ELSE [c EXCEPT ![index] = (c[index] + 1) % U8]
        ELSE IF count = 3
             THEN [c EXCEPT ![index] = 1]
             ELSE c

\* updateCell with the underpopulation test off by one: count < 1
updateCellLonely(c, data, x, y, w, h) ==
    LET index == y * w + x
        count == neighbors(data, x, y, w, h)
    IN  IF data[index] # 0
        THEN IF count < 1 \/ count > 3
             THEN [c EXCEPT ![index] = 0]
             ELSE IF c[index] < MaxAge
                  THEN [c EXCEPT ![index] = (c[index] + 1) % U8]
                  ELSE c
        ELSE IF count = 3
             THEN [c EXCEPT ![index] = 1]
             ELSE c

\* the body of the loops of updateCells for one cell: reads the snapshot
\* `data`, writes the live grid `c`
updateCell(c, data, x, y, w, h) ==
    LET index == y * w + x
        count == neighbors(data, x, y, w, h)
    IN  IF data[index] # 0
        THEN IF count < 2 \/ count > 3
             THEN [c EXCEPT ![index] = 0]
             ELSE IF c[index] < MaxAge
                  THEN [c EXCEPT ![index] = (c[index] + 1) % U8]
                  ELSE c
        ELSE IF count = 3
             THEN [c EXCEPT ![index] = 1]
             ELSE c

\* for(auto x = 0u; x < w; x++)
RECURSIVE updateRow(_, _, _, _, _, _)
updateRow(c, data, x, y, w, h) ==
    IF x < w
    THEN updateRow(updateCell(c, data, x, y, w, h), data, x + 1, y, w, h)
    ELSE c

\* for(auto y = 0u; y < h; y++)
RECURSIVE updateRows(_, _, _, _, _)
updateRows(c, data, y, w, h) ==
    IF y < h
    THEN updateRows(updateRow(c, data, 0, y, w, h), data, y + 1, w, h)
    ELSE c

\* void updateCells(Cells &cells, w, h): old is a copy of cells
updateCells(c, w, h) == updateRows(c, c, 0, w, h)

----------------------------------------------------------------------------
(* The pixel encoder: src/main.cpp lines 117-119, 176-182 *)

\* createPixelData called with the display size instead of the field size
createPixelDataDisplay(width, height) ==
    [i \in Indices(2 * width, 2 * height) |-> Black]

createPixelData(width, height) == [i \in Indices(width, height) |-> Black]

\* *c ? (0x0000ff00 | *c << 24) : 0x00000000, stored in a std::uint32_t
encodeCell(c) == IF c # 0 THEN Or32(Green, Shl24(Promote(c))) ELSE Black

\* the iterators c and p advance together over cells
updatePixelData(p, c) ==
    [i \in DOMAIN p |-> IF i \in DOMAIN c THEN encodeCell(c[i]) ELSE p[i]]

----------------------------------------------------------------------------
(* main(): src/main.cpp lines 27-87 *)

\* the events SDL_PollEvent can deliver: a close request, an Escape key-down,
\* a key-down of another key, and an event of a type the switch has no case for
Events ==
    { [type |-> "SDL_QUIT",    sym |-> "none"],
      [type |-> "SDL_KEYDOWN", sym |-> "SDLK_ESCAPE"],
      [type |-> "SDL_KEYDOWN", sym |-> "SDLK_SPACE"],
      [type |-> "SDL_KEYUP",   sym |-> "SDLK_ESCAPE"] }

\* Cells createCells(width, height): every cell is dist(mt) < 15, 0 or 1
createCells(width, height) == [Indices(width, height) -> {0, 1}]

\* a shared_ptr local leaving scope: a constructed one calls its deleter, also
\* when it owns nullptr, since it was constructed with a deleter
destroyed(handle) == IF handle = "none" THEN "none" ELSE "gone"

deleterCall(name, handle) ==
    IF handle \in {"live", "null"} THEN << <<name, handle>> >> ELSE << >>

\* the locals destroyed in the order of their declaration
destroyLocalsForward ==
    /\ calls' = calls \o deleterCall("destroy_window", window)
                      \o deleterCall("destroy_renderer", renderer)
                      \o deleterCall("destroy_texture", texture)
    /\ texture' = destroyed(texture)
    /\ renderer' = destroyed(renderer)
    /\ window' = destroyed(window)

\* the locals of main() are destroyed in reverse order of declaration
destroyLocals ==
    /\ calls' = calls \o deleterCall("destroy_texture", texture)
                      \o deleterCall("destroy_renderer", renderer)
                      \o deleterCall("destroy_window", window)
    /\ texture' = destroyed(texture)
    /\ renderer' = destroyed(renderer)
    /\ window' = destroyed(window)

\* per cell, the number of consecutive generations it has been alive
nextStreak(s, c) == [i \in DOMAIN c |-> IF c[i] # 0 THEN s[i] + 1 ELSE 0]

Init ==
    /\ pc = "sdl_init"
    /\ field_w = 0
    /\ field_h = 0
    /\ window = "none"
    /\ renderer = "none"
    /\ texture = "none"
    /\ calls = << >>
    /\ cerr = ""
    /\ exit_code = -1
    /\ cells = << >>
    /\ old = << >>
    /\ pixels = << >>
    /\ screen = << >>
    /\ run = FALSE
    /\ events = << >>
    /\ seed = << >>
    /\ start = << >>
    /\ gens = 0
    /\ frames = 0
    /\ streak = << >>

\* lines 29-30
SdlInit ==
    /\ pc = "sdl_init"
    /\ \E ok \in BOOLEAN :
        /\ calls' = Append(calls, <<"SDL_Init", IF ok THEN "ok" ELSE "failed">>)
        /\ pc' = IF ok THEN "get_mode" ELSE "unwind"
    /\ UNCHANGED << field_w, field_h, window, renderer, texture, cerr,
                    exit_code, cells, old, pixels, screen, run, events, seed,
                    start, gens, frames, streak >>

\* lines 32-40
GetMode ==
    /\ pc = "get_mode"
    /\ \/ \E width \in 2 .. MaxDisplayW, height \in 2 .. MaxDisplayH :
            /\ field_w' = width \div 2
            /\ field_h' = height \div 2
            /\ calls' = Append(calls, <<"SDL_GetCurrentDisplayMode", "ok">>)
            /\ pc' = "create_window"
       \/ /\ calls' = Append(calls, <<"SDL_GetCurrentDisplayMode", "failed">>)
          /\ pc' = "unwind"
          /\ UNCHANGED << field_w, field_h >>
    /\ UNCHANGED << window, renderer, texture, cerr, exit_code, cells,
                    old, pixels, screen, run, events, seed, start, gens,
                    frames, streak >>

\* lines 43-45
CreateWindow ==
    /\ pc = "create_window"
    /\ \E ok \in BOOLEAN :
        /\ window' = IF ok THEN "live" ELSE "null"
        /\ calls' = Append(calls, <<"create_window", IF ok THEN "live" ELSE "null">>)
        /\ pc' = IF ok THEN "create_renderer" ELSE "unwind"
    /\ UNCHANGED << field_w, field_h, renderer, texture, cerr, exit_code,
                    cells, old, pixels, screen, run, events, seed, start,
                    gens, frames, streak >>

\* lines 47-49
CreateRenderer ==
    /\ pc = "create_renderer"
    /\ \E ok \in BOOLEAN :
        /\ renderer' = IF ok THEN "live" ELSE "null"
        /\ calls' = Append(calls, <<"create_renderer", IF ok THEN "live" ELSE "null">>)
        /\ pc' = IF ok THEN "create_texture" ELSE "unwind"
    /\ UNCHANGED << field_w, field_h, window, texture, cerr, exit_code, cells,
                    old, pixels, screen, run, events, seed, start, gens,
                    frames, streak >>

\* CreateTexture without the test of line 52: a null texture is used
CreateTextureUnchecked ==
    /\ pc = "create_texture"
    /\ \E ok \in BOOLEAN :
        /\ texture' = IF ok THEN "live" ELSE "null"
        /\ calls' = Append(calls, <<"create_texture", IF ok THEN "live" ELSE "null">>)
        /\ pc' = "create_data"
    /\ UNCHANGED << field_w, field_h, window, renderer, cerr, exit_code,
                    cells, old, pixels, screen, run, events, seed, start,
                    gens, frames, streak >>

\* lines 51-53
CreateTexture ==
    /\ pc = "create_texture"
    /\ \E ok \in BOOLEAN :
        /\ texture' = IF ok THEN "live" ELSE "null"
        /\ calls' = Append(calls, <<"create_texture", IF ok THEN "live" ELSE "null">>)
        /\ pc' = IF ok THEN "create_data" ELSE "unwind"
    /\ UNCHANGED << field_w, field_h, window, renderer, cerr, exit_code,
                    cells, old, pixels, screen, run, events, seed, start,
                    gens, frames, streak >>

\* lines 55-60
CreateData ==
    /\ pc = "create_data"
    /\ pixels' = createPixelData(field_w, field_h)
    /\ \E c \in createCells(field_w, field_h) :
        /\ cells' = c
        /\ seed' = c
        /\ streak' = c
    /\ run' = TRUE
    /\ pc' = "loop"
    /\ UNCHANGED << field_w, field_h, window, renderer, texture, calls, cerr,
                    exit_code, old, screen, events, start, gens, frames >>

\* Tick with the encoder storing through the cell iterator (*c = ...): the
\* low byte of the encoded word, 0, lands in the grid, the pixels stay
TickWritesCells(limit) ==
    /\ pc = "loop"
    /\ run
    /\ frames < limit
    /\ start' = cells
    /\ cells' = [i \in DOMAIN cells |-> encodeCell(cells[i])[4]]
    /\ pc' = "advance"
    /\ UNCHANGED << field_w, field_h, window, renderer, texture, calls, cerr,
                    exit_code, pixels, old, screen, run, events, seed, gens,
                    frames, streak >>

\* lines 61-62: while(run) entered, updatePixelData(pixels, cells)
Tick(limit) ==
    /\ pc = "loop"
    /\ run
    /\ frames < limit
    /\ start' = cells
    /\ pixels' = updatePixelData(pixels, cells)
    /\ pc' = "advance"
    /\ UNCHANGED << field_w, field_h, window, renderer, texture, calls, cerr,
                    exit_code, cells, old, screen, run, events, seed, gens,
                    frames, streak >>

Encode == Tick(MaxTicks)

\* Advance with the encoder called after updateCells instead of before
AdvanceThenEncode ==
    /\ pc = "advance"
    /\ old' = cells
    /\ cells' = updateCells(cells, field_w, field_h)
    /\ pixels' = updatePixelData(pixels, cells')
    /\ streak' = nextStreak(streak, cells')
    /\ gens' = gens + 1
    /\ pc' = "present"
    /\ UNCHANGED << field_w, field_h, window, renderer, texture, calls, cerr,
                    exit_code, screen, run, events, seed, start, frames >>

\* line 63: updateCells(cells, field_w, field_h)
Advance ==
    /\ pc = "advance"
    /\ old' = cells
    /\ cells' = updateCells(cells, field_w, field_h)
    /\ streak' = nextStreak(streak, cells')
    /\ gens' = gens + 1
    /\ pc' = "present"
    /\ UNCHANGED << field_w, field_h, window, renderer, texture, calls, cerr,
                    exit_code, pixels, screen, run, events, seed, start,
                    frames >>

\* lines 64-67: upload the pixel buffer to the texture and present it
Present ==
    /\ pc = "present"
    /\ screen' = pixels
    /\ frames' = frames + 1
    /\ pc' = "poll"
    /\ UNCHANGED << field_w, field_h, window, renderer, texture, calls, cerr,
                    exit_code, cells, old, pixels, run, events, seed, start,
                    gens, streak >>

\* handleEvent without the test of the key: any key-down ends the loop
handleEventAnyKey(r, event) ==
    IF event.type = "SDL_KEYDOWN"
    THEN FALSE
    ELSE IF event.type = "SDL_QUIT" THEN FALSE ELSE r

\* handleEvent with run assigned from the key: run = (sym != SDLK_ESCAPE)
handleEventAssign(r, event) ==
    IF event.type = "SDL_KEYDOWN"
    THEN event.sym # "SDLK_ESCAPE"
    ELSE IF event.type = "SDL_QUIT" THEN FALSE ELSE r

\* the switch of lines 69-77 on one polled event
handleEvent(r, event) ==
    IF event.type = "SDL_KEYDOWN"
    THEN IF event.sym = "SDLK_ESCAPE" THEN FALSE ELSE r
    ELSE IF event.type = "SDL_QUIT" THEN FALSE ELSE r

\* lines 68-78: SDL_PollEvent returned an event
PollEvent ==
    /\ pc = "poll"
    /\ events # << >>
    /\ run' = handleEvent(run, Head(events))
    /\ events' = Tail(events)
    /\ UNCHANGED << pc, field_w, field_h, window, renderer, texture, calls,
                    cerr, exit_code, cells, old, pixels, screen, seed, start,
                    gens, frames, streak >>

\* line 68: SDL_PollEvent returned 0, the drain ends
PollEmpty ==
    /\ pc = "poll"
    /\ events = << >>
    /\ pc' = "loop"
    /\ UNCHANGED << field_w, field_h, window, renderer, texture, calls, cerr,
                    exit_code, cells, old, pixels, screen, run, events, seed,
                    start, gens, frames, streak >>

\* the environment queues an event; the queue is read only by the drain, so
\* an event raised at any other time is the same as one raised at its start
PostEvent ==
    /\ pc = "poll"
    /\ Len(events) < MaxPending
    /\ \E e \in Events : events' = Append(events, e)
    /\ UNCHANGED << pc, field_w, field_h, window, renderer, texture, calls,
                    cerr, exit_code, cells, old, pixels, screen, run, seed,
                    start, gens, frames, streak >>

\* line 61: while(run) left
LoopExit ==
    /\ pc = "loop"
    /\ ~run
    /\ pc' = "sdl_quit"
    /\ UNCHANGED << field_w, field_h, window, renderer, texture, calls, cerr,
                    exit_code, cells, old, pixels, screen, run, events, seed,
                    start, gens, frames, streak >>

\* line 81
SdlQuit ==
    /\ pc = "sdl_quit"
    /\ calls' = Append(calls, <<"SDL_Quit", "ok">>)
    /\ pc' = "return"
    /\ UNCHANGED << field_w, field_h, window, renderer, texture, cerr,
                    exit_code, cells, old, pixels, screen, run, events, seed,
                    start, gens, frames, streak >>

\* line 82: return 0 leaves the scope of the locals
Return ==
    /\ pc = "return"
    /\ destroyLocals
    /\ exit_code' = 0
    /\ pc' = "exited"
    /\ UNCHANGED << field_w, field_h, cerr, cells, old, pixels, screen, run,
                    events, seed, start, gens, frames, streak >>

\* a throw of lines 30-53: the stack is unwound before the handler runs
Unwind ==
    /\ pc = "unwind"
    /\ destroyLocals
    /\ pc' = "catch"
    /\ UNCHANGED << field_w, field_h, cerr, exit_code, cells, old, pixels,
                    screen, run, events, seed, start, gens, frames, streak >>

\* lines 83-87: catch(std::exception e) copies the base class, whose what()
\* is the generic text
Catch ==
    /\ pc = "catch"
    /\ cerr' = "std::exception"
    /\ calls' = Append(calls, <<"SDL_Quit", "ok">>)
    /\ exit_code' = 1
    /\ pc' = "exited"
    /\ UNCHANGED << field_w, field_h, window, renderer, texture, cells, old,
                    pixels, screen, run, events, seed, start, gens, frames,
                    streak >>

Next ==
    \/ SdlInit
    \/ GetMode
    \/ CreateWindow
    \/ CreateRenderer
    \/ CreateTexture
    \/ CreateData
    \/ Encode
    \/ Advance
    \/ Present
    \/ PollEvent
    \/ PollEmpty
    \/ PostEvent
    \/ LoopExit
    \/ SdlQuit
    \/ Return
    \/ Unwind
    \/ Catch

Spec == Init /\ [][Next]_vars

----------------------------------------------------------------------------
(* Specifications of the grid alone.  Each starts inside the frame loop of a *)
(* run whose setup succeeded, with a grid drawn from a bounded set.          *)

\* the calls of a setup in which nothing failed
SetupCalls ==
    << <<"SDL_Init", "ok">>, <<"SDL_GetCurrentDisplayMode", "ok">>,
       <<"create_window", "live">>, <<"create_renderer", "live">>,
       <<"create_texture", "live">> >>

\* the state of main() at position `at` of its first tick, the grid being c
InLoop(at, w, h, c) ==
    /\ pc = at
    /\ field_w = w
    /\ field_h = h
    /\ window = "live"
    /\ renderer = "live"
    /\ texture = "live"
    /\ calls = SetupCalls
    /\ cerr = ""
    /\ exit_code = -1
    /\ cells = c
    /\ old = << >>
    /\ pixels = IF at = "loop" THEN createPixelData(w, h)
                ELSE updatePixelData(createPixelData(w, h), c)
    /\ screen = << >>
    /\ run = TRUE
    /\ events = << >>
    /\ seed = c
    /\ start = IF at = "loop" THEN << >> ELSE c
    /\ gens = 0
    /\ frames = 0
    /\ streak = c

\* ages given to the alive cells of an input grid of the rule specification
AgeSamples == {1, 254, 255}

\* the cells of the 3x3 window whose top-left corner is (ox, oy)
Window3(ox, oy, w, h) ==
    { y * w + x : x \in { v \in ox .. ox + 2 : v < w },
                  y \in { v \in oy .. oy + 2 : v < h } }

\* the input grids of the rule specifications: any size up to MaxW x MaxH,
\* the alive cells, all of one age drawn from `ages`, lying in a 3x3 window
\* placed anywhere (every grid up to 3x3, every Moore neighbourhood of every
\* cell of the larger ones)
InputGrids(ages) ==
    \E w \in 1 .. MaxW, h \in 1 .. MaxH :
      \E ox \in 0 .. w - 1, oy \in 0 .. h - 1, age \in ages :
        \E alive \in SUBSET Window3(ox, oy, w, h) :
          InLoop("advance", w, h,
                 [i \in Indices(w, h) |-> IF i \in alive THEN age ELSE 0])

\* The rule specification: one call of updateCells on an input grid whose
\* alive cells have a sampled age
InitRule == InputGrids(AgeSamples)

NextRule == Advance

SpecRule == InitRule /\ [][NextRule]_vars

\* The count specification: the same grids with every alive cell of age 1,
\* the age being nothing neighbors() reads
InitCount == InputGrids({1})

SpecCount == InitCount /\ [][NextRule]_vars

\* The seeded specification: the grid as createCells seeds it, for every
\* field size a display mode gives, advanced generation after generation
InitGen ==
    \E width \in 2 .. MaxDisplayW, height \in 2 .. MaxDisplayH :
      \E c \in createCells(width \div 2, height \div 2) :
        InLoop("loop", width \div 2, height \div 2, c)

\* a grid with no alive cell stays as it is: its generations are not explored
Generation ==
    /\ \E i \in DOMAIN cells : cells[i] # 0
    /\ Tick(MaxGens)

NextGen ==
    \/ Generation
    \/ Advance
    \/ Present
    \/ PollEmpty

SpecGen == InitGen /\ [][NextGen]_vars

\* The block specification: a seeded grid that is dead except for a 2x2
\* block of cells of age 1 whose top-left corner (bx, by) keeps the block
\* off all four edges
BlockCells(bx, by, w) ==
    { by * w + bx, by * w + bx + 1, (by + 1) * w + bx, (by + 1) * w + bx + 1 }

InitBlock ==
    \E w \in 4 .. MaxBlockW, h \in 4 .. MaxBlockH :
      \E bx \in 1 .. w - 3, by \in 1 .. h - 3 :
        InLoop("loop", w, h,
               [i \in Indices(w, h) |->
                   IF i \in BlockCells(bx, by, w) THEN 1 ELSE 0])

SpecBlock == InitBlock /\ [][NextGen]_vars

----------------------------------------------------------------------------
(* Vocabulary of the properties *)

Min(a, b) == IF a < b THEN a ELSE b

Xs == 0 .. field_w - 1
Ys == 0 .. field_h - 1
At(x, y) == y * field_w + x

\* the positions of the grid that are Moore neighbours of (x, y)
Moore(x, y) ==
    { p \in (x - 1 .. x + 1) \X (y - 1 .. y + 1) :
          /\ p # << x, y >>
          /\ p[1] \in Xs
          /\ p[2] \in Ys }

\* how many Moore neighbours of (x, y) are alive in grid g
MooreAlive(g, x, y) ==
    Cardinality({ p \in Moore(x, y) : g[At(p[1], p[2])] # 0 })

\* the count neighbors() gives for (x, y) on the snapshot
Count(x, y) == neighbors(old, x, y, field_w, field_h)

\* the rule: the next value of a cell of value v with neighbour count n
RuleValue(v, n) ==
    IF v # 0
    THEN IF n < 2 \/ n > 3 THEN 0
         ELSE IF v = 255 THEN 255 ELSE v + 1
    ELSE IF n = 3 THEN 1 ELSE v

\* generation k of grid c
RECURSIVE GenerationOf(_, _)
GenerationOf(c, k) ==
    IF k = 0 THEN c ELSE GenerationOf(updateCells(c, field_w, field_h), k - 1)

\* updateCells has just returned
Advanced == pc = "present"

----------------------------------------------------------------------------
(* C1 .. C10 *)

\* C1: after one call of updateCells every cell holds the value the rule
\* gives for its value and its neighbour count in the snapshot of the
\* previous generation: alive with n < 2 or n > 3 -> 0, alive with n in
\* {2,3} -> age + 1 (255 stays 255), dead with n = 3 -> 1, else unchanged.
C1_RuleOnSnapshot ==
    Advanced =>
        \A x \in Xs, y \in Ys :
            cells[At(x, y)] = RuleValue(old[At(x, y)], Count(x, y))

\* a saturated cell survived beside a birth and a death, and a cell that
\* was counted as a neighbour changed before a later cell was computed
C1_Witness ==
    /\ Advanced
    /\ \E i \in DOMAIN old : old[i] = 255 /\ cells[i] = 255
    /\ \E i \in DOMAIN old : old[i] = 0 /\ cells[i] = 1
    /\ \E i \in DOMAIN old : old[i] # 0 /\ cells[i] = 0
    /\ \E x \in Xs, y \in Ys :
          /\ x >= 1 /\ y >= 1 /\ x < field_w - 1
          /\ (old[At(x, y)] = 0) # (cells[At(x, y)] = 0)
          /\ old[At(x + 1, y)] # 0 /\ cells[At(x + 1, y)] # 0

\* C2: each tick encodes, advances, presents, then drains; the frame on
\* the screen is the encoding of the grid as the tick found it, and the
\* k-th frame shows generation k-1 of the seed.
C2_FrameShowsTickStart ==
    /\ pc = "advance" =>
          /\ cells = start
          /\ gens = frames
          /\ pixels = updatePixelData(pixels, start)
    /\ pc = "present" =>
          /\ gens = frames + 1
          /\ cells = updateCells(start, field_w, field_h)
          /\ pixels = updatePixelData(pixels, start)
    /\ pc = "poll" =>
          /\ frames >= 1
          /\ gens = frames
          /\ screen = updatePixelData(screen, start)
          /\ start = GenerationOf(seed, frames - 1)
          /\ cells = updateCells(start, field_w, field_h)

\* the third frame is on the screen and the three generations shown differ
C2_Witness ==
    /\ pc = "poll"
    /\ frames = 3
    /\ GenerationOf(seed, 1) # seed
    /\ GenerationOf(seed, 2) # GenerationOf(seed, 1)
    /\ GenerationOf(seed, 2) # seed
    /\ cells # GenerationOf(seed, 2)

\* the loop has been told to stop: run is false at or after the drain
Stopping == ~run /\ pc \in {"poll", "loop"}
Terminated == ~run /\ pc \in {"sdl_quit", "return", "exited"} /\ frames >= 1
Running == run /\ pc \in {"loop", "advance", "present", "poll"}

\* C3: once a quit or Escape has been polled the loop is Stopping and then
\* Terminated, never Running again: the drain goes on until the queue is
\* empty, nothing more is encoded, advanced or presented, and the loop is
\* left before another tick begins.
C3_StopIsFinal ==
    [][ (Stopping \/ Terminated) =>
           /\ (Stopping \/ Terminated)'
           /\ ~Running'
           /\ << cells, pixels, screen, gens, frames >>' =
              << cells, pixels, screen, gens, frames >>
           /\ (Stopping /\ pc = "poll" /\ events # << >>) => pc' = "poll"
           /\ (Stopping /\ Terminated') => (events = << >> /\ pc = "loop")
      ]_vars

\* an Escape or quit has been polled while another event is still pending
C3_Witness ==
    /\ Stopping
    /\ pc = "poll"
    /\ events # << >>
    /\ Head(events).type = "SDL_KEYDOWN"

\* C4: in every grid reached from a seed of 0s and 1s an alive cell holds
\* min(255, number of consecutive generations it has been alive, the
\* current one included); a cell that survives (2 or 3 neighbours) is still
\* alive after the call, so one alive for 260 generations holds 255.
C4_AgeIsSaturatedStreak ==
    /\ \A i \in DOMAIN cells :
          /\ cells[i] # 0 => cells[i] = Min(255, streak[i])
          /\ streak[i] >= 260 => cells[i] = 255
    /\ Advanced =>
          \A x \in Xs, y \in Ys :
              (old[At(x, y)] # 0 /\ Count(x, y) \in {2, 3}) =>
                  /\ cells[At(x, y)] # 0
                  /\ streak[At(x, y)] >= 2

\* a cell has been alive for 260 generations in a row and holds 255
C4_Witness ==
    /\ Advanced
    /\ \E x \in Xs, y \in Ys :
          /\ streak[At(x, y)] = 260
          /\ cells[At(x, y)] = 255
          /\ old[At(x, y)] = 255
          /\ Count(x, y) \in {2, 3}

\* C5: a live cell whose 8 Moore neighbours all lie inside the grid and
\* are all alive is dead after one call of updateCells.
C5_Overpopulation ==
    Advanced =>
        \A x \in Xs, y \in Ys :
            ( /\ old[At(x, y)] # 0
              /\ Cardinality(Moore(x, y)) = 8
              /\ MooreAlive(old, x, y) = 8 ) => cells[At(x, y)] = 0

\* C6: a dead cell with exactly 3 alive Moore neighbours holds 1 after one
\* call of updateCells; with exactly 2 or exactly 4 it is still dead.
C6_Birth ==
    Advanced =>
        \A x \in Xs, y \in Ys :
            old[At(x, y)] = 0 =>
                /\ MooreAlive(old, x, y) = 3 => cells[At(x, y)] = 1
                /\ MooreAlive(old, x, y) \in {2, 4} => cells[At(x, y)] = 0

\* C7: a live cell anywhere in the grid with fewer than 2 alive Moore
\* neighbours is dead after one call of updateCells.
C7_Underpopulation ==
    Advanced =>
        \A x \in Xs, y \in Ys :
            (old[At(x, y)] # 0 /\ MooreAlive(old, x, y) < 2) =>
                cells[At(x, y)] = 0

\* an isolated cell in a corner died, and so did an inner cell whose single
\* alive neighbour is one that neighbors() counts
C7_Witness ==
    /\ Advanced
    /\ \E x \in Xs, y \in Ys :
          /\ x >= 1 /\ y >= 1 /\ x < field_w - 1 /\ y < field_h - 1
          /\ old[At(x, y)] # 0
          /\ MooreAlive(old, x, y) = 1
          /\ Count(x, y) = 1
          /\ cells[At(x, y)] = 0
          /\ old[At(0, 0)] # 0
          /\ MooreAlive(old, 0, 0) = 0
          /\ cells[At(0, 0)] = 0

\* C8: a cell of the top row or left column is counted as a live neighbour
\* by no cell, whatever its value; an alive cell with x >= 1 and y >= 1,
\* the last column and the last row included, is counted by each of its
\* Moore neighbours in the grid: the count of every cell is the number of
\* its alive Moore neighbours that have x >= 1 and y >= 1.
C8_AsymmetricBoundary ==
    \A qx \in Xs, qy \in Ys :
        neighbors(cells, qx, qy, field_w, field_h)
        = Cardinality({ p \in Moore(qx, qy) :
                           p[1] >= 1 /\ p[2] >= 1 /\ cells[At(p[1], p[2])] # 0 })

\* a 3x3 grid whose top row and left column are alive beside the centre,
\* and whose bottom-right corner is alive: the centre's count is 1
C8_Witness ==
    /\ field_w = 3 /\ field_h = 3
    /\ pc = "advance"
    /\ { i \in DOMAIN cells : cells[i] # 0 } = {At(0, 0), At(1, 0), At(0, 1), At(2, 2)}
    /\ neighbors(cells, 1, 1, field_w, field_h) = 1

\* grid g with the cell (x, y) set to v
With(g, x, y, v) == [g EXCEPT ![At(x, y)] = v]

\* C9: the neighbour count of every cell is between 0 and 8 and does not
\* depend on the value of the cell itself.
C9_CountBounded ==
    \A x \in Xs, y \in Ys :
        LET n == neighbors(cells, x, y, field_w, field_h)
        IN  /\ n \in 0 .. 8
            /\ \A v \in {0, 255} :
                  neighbors(With(cells, x, y, v), x, y, field_w, field_h) = n

\* an alive cell that neighbors() can count has all 8 neighbours counted
C9_Witness ==
    \E x \in Xs, y \in Ys :
        /\ x >= 1 /\ y >= 1
        /\ cells[At(x, y)] # 0
        /\ neighbors(cells, x, y, field_w, field_h) = 8

\* the cells of the seeded block
SeedBlock == { i \in DOMAIN seed : seed[i] # 0 }

\* C10: a 2x2 block of age 1 away from all edges is a still life: after n
\* generations exactly its 4 cells are alive, each of age min(255, 1 + n),
\* and every other cell is dead.
C10_BlockStillLife ==
    \A i \in DOMAIN cells :
        cells[i] = IF i \in SeedBlock THEN Min(255, 1 + gens) ELSE 0

\* the 5x5 grid with the block at rows and columns 2-3, one generation on
C10_Witness ==
    /\ field_w = 5 /\ field_h = 5
    /\ SeedBlock = {12, 13, 17, 18}
    /\ gens = 1
    /\ \A i \in SeedBlock : cells[i] = 2

----------------------------------------------------------------------------
(* C11 .. C20 *)

\* C11: updatePixelData maps the cells to the pixels index by index: a dead
\* cell gives the 32-bit value 0, an alive cell of age k (1..255, k >= 128
\* included) gives a pixel whose most significant byte is k and whose lower
\* 24 bits are 0x00FF00, so the age is pixel >> 24.
C11_PixelCarriesAge ==
    pc = "advance" =>
        /\ DOMAIN pixels = DOMAIN cells
        /\ \A i \in DOMAIN cells :
              /\ cells[i] = 0 => pixels[i] = << 0, 0, 0, 0 >>
              /\ cells[i] # 0 =>
                    /\ pixels[i][1] = cells[i]
                    /\ << pixels[i][2], pixels[i][3], pixels[i][4] >>
                       = << 0, 255, 0 >>

\* a grid holding a dead cell and a cell of age 200 has been encoded
C11_Witness ==
    /\ pc = "advance"
    /\ gens >= 1
    /\ \E i \in DOMAIN cells : cells[i] = 0 /\ pixels[i] = << 0, 0, 0, 0 >>
    /\ \E i \in DOMAIN cells :
          cells[i] = 200 /\ pixels[i] = << 200, 0, 255, 0 >>

\* the positions in the call log of the calls of function `name`
Pos(name) == { i \in DOMAIN calls : calls[i][1] = name }

\* every call of a comes before every call of b
Before(a, b) == \A i \in Pos(a), j \in Pos(b) : i < j

\* the handle kinds, in the order main() acquires them
Handles == << "window", "renderer", "texture" >>
Create(k) == "create_" \o Handles[k]
Destroy(k) == "destroy_" \o Handles[k]

\* handle k was acquired: its create call returned a handle
Acquired(k) == \E i \in Pos(Create(k)) : calls[i][2] = "live"

\* main() has returned
Exited == pc = "exited"

\* C12: on every exit path, after a quit or Escape as after a failed
\* creation of the window, renderer or texture, the handles are released in
\* reverse order of acquisition: texture before renderer before window, and
\* every acquired handle has been released when main() has returned.
C12_ReleaseInReverse ==
    /\ \A k \in 1 .. 3, l \in 1 .. 3 : k < l => Before(Destroy(l), Destroy(k))
    /\ Exited => \A k \in 1 .. 3 : Acquired(k) => Pos(Destroy(k)) # {}

\* a run ended by a quit or Escape has released its three handles
C12_Witness ==
    /\ Exited
    /\ exit_code = 0
    /\ \A k \in 1 .. 3 : Acquired(k) /\ Pos(Destroy(k)) # {}

\* the setup steps of main() that can fail, in program order
SetupSteps ==
    { "SDL_Init", "SDL_GetCurrentDisplayMode", "create_window",
      "create_renderer", "create_texture" }

\* the positions in the call log of the setup steps that failed
FailedAt ==
    { i \in DOMAIN calls :
          calls[i][1] \in SetupSteps /\ calls[i][2] \in {"failed", "null"} }

SetupFailed == FailedAt # {}

\* C13: when SDL_Init, the display mode query or the creation of the
\* window, renderer or texture fails, the step is not retried, no further
\* setup step and no tick (encode, advance, present) is ever executed, and
\* main() returns 1; a run that ends through a quit or Escape returns 0.
C13_SetupFailureIsFatal ==
    /\ \A s \in SetupSteps : Cardinality(Pos(s)) <= 1
    /\ SetupFailed =>
          /\ pc \in {"unwind", "catch", "exited"}
          /\ \A i \in FailedAt, j \in DOMAIN calls :
                calls[j][1] \in SetupSteps => j <= i
          /\ frames = 0 /\ gens = 0
          /\ cells = << >> /\ pixels = << >> /\ screen = << >>
    /\ Exited => exit_code = IF SetupFailed THEN 1 ELSE 0
    /\ (Exited /\ ~SetupFailed) => (~run /\ frames >= 1)
    /\ ~Exited => exit_code = -1

\* main() has returned 1 after the renderer could not be created
C13_Witness ==
    /\ Exited
    /\ exit_code = 1
    /\ \E i \in FailedAt : calls[i] = << "create_renderer", "null" >>

\* C14: when a creation step fails, a release function has been invoked
\* exactly once for each handle acquired before the failure, and not at all
\* for the handle whose creation failed nor for one never created.
C14_ReleaseOnlyAcquired ==
    (Exited /\ SetupFailed) =>
        \A k \in 1 .. 3 :
            Cardinality(Pos(Destroy(k))) = IF Acquired(k) THEN 1 ELSE 0

\* the two events that end the loop
StopSignal(e) ==
    \/ e.type = "SDL_QUIT"
    \/ e.type = "SDL_KEYDOWN" /\ e.sym = "SDLK_ESCAPE"

\* this step is SDL_PollEvent delivering event e to the switch
Polled(e) ==
    /\ pc = "poll"
    /\ events # << >>
    /\ Head(events) = e
    /\ events' = Tail(events)

\* C15: the loop leaves Running only in the step that polls a quit or an
\* Escape key-down; the step polling any other event (a key-down of another
\* key included) leaves run, the grid and the pixel buffer as they are; as
\* long as neither has been polled, run stays true and the step from the
\* loop head is the start of another tick.
C15_OnlyQuitOrEscapeStops ==
    [][ /\ \A e \in Events :
              (Polled(e) /\ ~StopSignal(e)) =>
                  << run, cells, pixels >>' = << run, cells, pixels >>
        /\ (Running /\ ~Running') =>
              \E e \in Events : Polled(e) /\ StopSignal(e)
        /\ (run /\ pc = "loop") => (run' /\ pc' = "advance")
        /\ (run /\ pc = "poll" /\ events = << >>) => run'
      ]_vars

\* after two frames the loop is still Running and the drain is about to
\* deliver a key-down of a key other than Escape
C15_Witness ==
    /\ Running
    /\ pc = "poll"
    /\ frames >= 2
    /\ events = << [type |-> "SDL_KEYDOWN", sym |-> "SDLK_SPACE"] >>

\* C16: for a grid of w >= 1 by h >= 1 cells, every index updateCells
\* reads from the snapshot (the neighbour reads of isLive on all four edges
\* and corners included) and every index it writes lies in [0, w*h).
C16_AccessesInRange ==
    /\ field_w >= 1 /\ field_h >= 1
    /\ DOMAIN cells = 0 .. field_w * field_h - 1
    /\ Advanced => DOMAIN old = DOMAIN cells
    /\ \A x \in Xs, y \in Ys :
          \A i \in neighborsReads(x, y, field_w, field_h) \cup { At(x, y) } :
              0 <= i /\ i < field_w * field_h
    /\ updateCellsReads(field_w, field_h) \subseteq DOMAIN cells
    /\ updateCellsWrites(field_w, field_h) \subseteq DOMAIN cells

\* updateCells has run on a 4x4 grid: the corner cells read one and
\* three neighbours, an inner cell eight, the last of them
\* the last element of the grid
C16_Witness ==
    /\ Advanced
    /\ field_w = 4 /\ field_h = 4
    /\ neighborsReads(0, 0, 4, 4) = { 5 }
    /\ neighborsReads(3, 3, 4, 4) = { 10, 11, 14 }
    /\ Cardinality(neighborsReads(2, 2, 4, 4)) = 8
    /\ 15 \in neighborsReads(2, 2, 4, 4)
    /\ updateCellsWrites(4, 4) = DOMAIN cells

\* startup is over: pixels and cells have been constructed
Allocated ==
    \/ pc \in {"loop", "advance", "present", "poll", "sdl_quit", "return"}
    \/ Exited /\ exit_code = 0

\* the grid and the pixel buffer have the length the field size gives
FieldSized ==
    /\ \E width \in 2 .. MaxDisplayW : field_w = width \div 2
    /\ \E height \in 2 .. MaxDisplayH : field_h = height \div 2
    /\ DOMAIN cells = 0 .. field_w * field_h - 1
    /\ DOMAIN pixels = 0 .. field_w * field_h - 1

\* C17: in every state after startup the grid and the pixel buffer both
\* have field_w * field_h elements, the field being the display size halved
\* in each dimension, and no encode, advance, present or event changes the
\* field size or either length.
C17_LengthsAreFieldSize ==
    /\ [](IF Allocated THEN FieldSized ELSE cells = << >> /\ pixels = << >>)
    /\ [][ Allocated =>
              /\ << field_w, field_h >>' = << field_w, field_h >>
              /\ DOMAIN cells' = DOMAIN cells
              /\ DOMAIN pixels' = DOMAIN pixels ]_vars

\* a 3x2 field after three ticks, an event pending: both hold 6 elements
C17_Witness ==
    /\ pc = "poll"
    /\ frames = 3
    /\ events # << >>
    /\ field_w = 3 /\ field_h = 2
    /\ Cardinality(DOMAIN cells) = 6
    /\ Cardinality(DOMAIN pixels) = 6

\* C18: the encoding feeds nothing back: the step that runs updatePixelData
\* leaves every cell unchanged, the step that runs updateCells leaves every
\* pixel unchanged and is the only step that changes the grid, so after
\* each advance the grid is updateCells applied gens times to the seed.
C18_NoFeedback ==
    /\ [](Advanced => cells = GenerationOf(seed, gens))
    /\ [][ /\ (pc = "loop" /\ pc' = "advance") =>
                 (cells' = cells /\ gens' = gens)
           /\ (pc = "advance" /\ pc' = "present") =>
                 /\ pixels' = pixels
                 /\ cells' = updateCells(cells, field_w, field_h)
                 /\ gens' = gens + 1
           /\ (Allocated /\ cells' # cells) => pc = "advance"
           /\ (Allocated /\ pixels' # pixels) => pc = "loop"
         ]_vars

\* three generations on, the grid differs from the seed and from the grid
\* the pixel buffer holds the encoding of
C18_Witness ==
    /\ Advanced
    /\ gens = 3
    /\ cells # seed
    /\ cells # start
    /\ pixels = updatePixelData(pixels, start)
    /\ pixels # updatePixelData(pixels, cells)

\* index i lies in row 0 or column 0
OnEdge(i) == i % field_w = 0 \/ i \div field_w = 0

\* the grids that agree with g on every cell with x >= 1 and y >= 1 and
\* hold 0 or 255 in each cell of row 0 and column 0, independently
EdgeVariants(g) ==
    { [i \in DOMAIN g |-> IF OnEdge(i) THEN e[i] ELSE g[i]] :
          e \in [{ j \in DOMAIN g : OnEdge(j) } -> {0, 255}] }

\* the cells of g with x >= 1 and y >= 1
Inner(g) == [i \in { j \in DOMAIN g : ~OnEdge(j) } |-> g[i]]

\* C19: two grids of the same size that agree on every cell with x >= 1
\* and y >= 1, whatever row 0 and column 0 hold, agree on every such cell
\* after any number of generations: the run from the seed and the run from
\* any grid that differs from the seed in row 0 and column 0 only have the
\* same inner cells, generation by generation.
C19_EdgeDoesNotInterfere ==
    Advanced =>
        \A g \in EdgeVariants(seed) :
            Inner(GenerationOf(g, gens)) = Inner(cells)

\* three generations on, inner cells are alive, and a run from a grid that
\* differs from the seed in row 0 and column 0 differs from this one there
C19_Witness ==
    /\ Advanced
    /\ gens = 3
    /\ field_w = 3 /\ field_h = 3
    /\ \E i \in DOMAIN cells : ~OnEdge(i) /\ cells[i] # 0
    /\ \E i \in DOMAIN seed : OnEdge(i) /\ seed[i] = 1
    /\ \E g \in EdgeVariants(seed) :
          /\ g # seed
          /\ Inner(g) = Inner(seed)
          /\ GenerationOf(g, 3) # cells

\* C20: on every exit path SDL_Quit is called only after every acquired
\* texture, renderer and window handle has been released, and no handle is
\* released after SDL_Quit.
C20_QuitAfterRelease ==
    /\ \A k \in 1 .. 3 : Before(Destroy(k), "SDL_Quit")
    /\ \A q \in Pos("SDL_Quit"), k \in 1 .. 3 :
          Acquired(k) => \E j \in Pos(Destroy(k)) : j < q

====
